---- MODULE Spec2Model ----
(***************************************************************************)
(* A model of the arithmetic expression service: Calc (calc.go) and the    *)
(* HTTP handler handleCalculate (main.go).                                 *)
(*                                                                         *)
(* A Go string is a sequence of one-character strings; a token is such a   *)
(* sequence too.  A float64 is modelled by the exact rational it denotes,  *)
(* a pair <<numerator, denominator>> in lowest terms with a positive       *)
(* denominator: on the short texts explored here every zero test of the    *)
(* code has the same outcome on the float64 and on the rational.           *)
(***************************************************************************)
EXTENDS Integers, Sequences, FiniteSets, TLC

\* ------------------------------------------------------------------ bounds

\* Longest text drawn from the whole alphabet.
MaxLen == 4

\* Longest text drawn from the grammar of well-formed expressions.
MaxExprLen == 7

\* Longest numeric literal inside a generated well-formed expression.
MaxLitLen == 2

\* Calls each caller may make in the concurrent specification.
MaxCalls == 2

\* -------------------------------------------------------------- characters

DecimalDigits == {"0", "1", "2", "3", "4", "5", "6", "7", "8", "9"}

OperatorChars == {"+", "-", "*", "/"}

\* The characters the input texts are drawn from: two digits, the four
\* operators, both parentheses, the space, the decimal point and a letter.
Alphabet == {"0", "2", "+", "-", "*", "/", "(", ")", " ", ".", "a"}

\* strings.TrimSpace cuts Unicode white space; of it, the alphabet has the space.
IsSpace(ch) == ch \in {" ", "\t", "\n", "\r"}

DigitVal(ch) ==
  CASE ch = "0" -> 0 [] ch = "1" -> 1 [] ch = "2" -> 2 [] ch = "3" -> 3
    [] ch = "4" -> 4 [] ch = "5" -> 5 [] ch = "6" -> 6 [] ch = "7" -> 7
    [] ch = "8" -> 8 [] ch = "9" -> 9

\* ------------------------------------------------------------- float64 values

Abs(n) == IF n < 0 THEN -n ELSE n

RECURSIVE GCD(_, _)
GCD(a, b) == IF b = 0 THEN a ELSE GCD(b, a % b)

\* The rational n/d (d # 0) in lowest terms with a positive denominator.
Rat(n, d) ==
  LET g == GCD(Abs(n), Abs(d))
      s == IF d < 0 THEN -1 ELSE 1
  IN  <<(s * n) \div g, (s * d) \div g>>

Zero == Rat(0, 1)

RECURSIVE Pow10(_)
Pow10(k) == IF k = 0 THEN 1 ELSE 10 * Pow10(k - 1)

\* ---------------------------------------------------------------- the errors

ErrInvalidExpression == "invalid expression"

ErrMismatchedParentheses == "mismatched parentheses"

ErrDivisionByZero == "division by zero"

NoErr == "nil"

\* ------------------------------------------------------------ calc.go, pure

RECURSIVE TrimLeft(_)
TrimLeft(s) ==
  IF s # <<>> /\ IsSpace(Head(s)) THEN TrimLeft(Tail(s)) ELSE s

RECURSIVE TrimRight(_)
TrimRight(s) ==
  IF s # <<>> /\ IsSpace(s[Len(s)]) THEN TrimRight(SubSeq(s, 1, Len(s) - 1)) ELSE s

TrimSpace(s) == TrimRight(TrimLeft(s))

\* The test of one character in isValidExpression.
ValidChar(ch) ==
  (ch \in DecimalDigits) \/ (ch \in {"+", "-", "*", "/", "(", ")", " "})

isValidExpression(expr) == \A k \in 1..Len(expr) : ValidChar(expr[k])

\* One iteration of tokenize's loop: t is [tokens, currentToken].
TokenizeCharSplitsOnSpace(t, ch) ==
  IF ch = " " \/ ch \in {"+", "-", "*", "/", "(", ")"}
  THEN LET flushed == IF t.currentToken # <<>>
                      THEN Append(t.tokens, t.currentToken) ELSE t.tokens
       IN  [tokens |-> IF ch = " " THEN flushed ELSE Append(flushed, <<ch>>),
            currentToken |-> <<>>]
  ELSE [t EXCEPT !.currentToken = Append(@, ch)]

TokenizeChar(t, ch) ==
  IF ch = " " THEN t
  ELSE IF ch \in {"+", "-", "*", "/", "(", ")"}
  THEN [tokens |-> Append(IF t.currentToken # <<>>
                          THEN Append(t.tokens, t.currentToken) ELSE t.tokens,
                          <<ch>>),
        currentToken |-> <<>>]
  ELSE [t EXCEPT !.currentToken = Append(@, ch)]

RECURSIVE TokenizeLoop(_, _, _)
TokenizeLoop(t, expr, k) ==
  IF k > Len(expr) THEN t ELSE TokenizeLoop(TokenizeChar(t, expr[k]), expr, k + 1)

tokenize(expr) ==
  LET t == TokenizeLoop([tokens |-> <<>>, currentToken |-> <<>>], expr, 1)
  IN  IF t.currentToken # <<>> THEN Append(t.tokens, t.currentToken) ELSE t.tokens

\* strconv.ParseFloat on a token over digits and the decimal point: it
\* succeeds when the token has a digit and at most one point.  (It also
\* fails, with a range error, on a literal beyond float64's range, which
\* takes more than 300 digits: far longer than the texts explored here.)
NumDots(token) == Cardinality({k \in 1..Len(token) : token[k] = "."})

NumDigits(token) == Cardinality({k \in 1..Len(token) : token[k] \in DecimalDigits})

isNumber(token) ==
  /\ NumDigits(token) >= 1
  /\ NumDots(token) <= 1
  /\ NumDigits(token) + NumDots(token) = Len(token)

RECURSIVE DigitsValue(_)
DigitsValue(ds) ==
  IF ds = <<>> THEN 0 ELSE 10 * DigitsValue(SubSeq(ds, 1, Len(ds) - 1)) + DigitVal(ds[Len(ds)])

\* The value ParseFloat gives a token isNumber accepts.
ParseFloat(token) ==
  LET ds   == SelectSeq(token, LAMBDA ch : ch \in DecimalDigits)
      dot  == IF NumDots(token) = 0 THEN Len(token)
              ELSE CHOOSE k \in 1..Len(token) : token[k] = "."
      frac == Len(token) - dot
  IN  Rat(DigitsValue(ds), Pow10(frac))

isOperator(token) ==
  token = <<"+">> \/ token = <<"-">> \/ token = <<"*">> \/ token = <<"/">>

PrecedenceFlat(op) ==
  IF isOperator(op) THEN 1 ELSE 0

precedence(op) ==
  CASE op = <<"+">> \/ op = <<"-">> -> 1
    [] op = <<"*">> \/ op = <<"/">> -> 2
    [] OTHER -> 0

Top(stk) == stk[Len(stk)]

Pop(stk) == SubSeq(stk, 1, Len(stk) - 1)

\* A converter state cv is [output, oper, err, ret]: infixToPostfix's two
\* locals, the error it returns (NoErr while it runs) and the line of the
\* return statement taken (0 while it runs).

\* The loop of a ")": pop operators into the output down to a "(".
RECURSIVE PopToParen(_)
PopToParen(cv) ==
  IF Len(cv.oper) > 0 /\ Top(cv.oper) # <<"(">>
  THEN PopToParen([cv EXCEPT !.output = Append(@, Top(cv.oper)), !.oper = Pop(@)])
  ELSE cv

\* The mutant: the "(" the loop stops at is emitted too.
CloseParenEmitsParen(cv) ==
  LET p == PopToParen(cv)
  IN  IF Len(p.oper) = 0
      THEN [p EXCEPT !.err = ErrMismatchedParentheses, !.ret = 82]
      ELSE [p EXCEPT !.output = Append(@, Top(p.oper)), !.oper = Pop(@)]

\* The mutant: a ")" that finds no "(" is let through.
CloseParenUnchecked(cv) ==
  LET p == PopToParen(cv)
  IN  IF Len(p.oper) = 0 THEN p ELSE [p EXCEPT !.oper = Pop(@)]

\* The branch of a ")".
CloseParen(cv) ==
  LET p == PopToParen(cv)
  IN  IF Len(p.oper) = 0
      THEN [p EXCEPT !.err = ErrMismatchedParentheses, !.ret = 82]
      ELSE [p EXCEPT !.oper = Pop(@)]

\* The loop of an operator: pop the operators that bind at least as tightly.
RECURSIVE PopHigher(_, _)
PopHigher(cv, token) ==
  IF Len(cv.oper) > 0 /\ precedence(Top(cv.oper)) >= precedence(token)
  THEN PopHigher([cv EXCEPT !.output = Append(@, Top(cv.oper)), !.oper = Pop(@)], token)
  ELSE cv

\* The branch of an operator.
PushOperator(cv, token) ==
  LET p == PopHigher(cv, token)
  IN  [p EXCEPT !.oper = Append(@, token)]

\* The body of infixToPostfix's loop over the tokens.
ConvertToken(cv, token) ==
  IF isNumber(token) THEN [cv EXCEPT !.output = Append(@, token)]
  ELSE IF token = <<"(">> THEN [cv EXCEPT !.oper = Append(@, token)]
  ELSE IF token = <<")">> THEN CloseParen(cv)
  ELSE IF isOperator(token) THEN PushOperator(cv, token)
  ELSE [cv EXCEPT !.err = ErrInvalidExpression, !.ret = 92]

\* The loop after the tokens: pop what is left, and fail on a "(".
RECURSIVE DrainOper(_)
DrainOper(cv) ==
  IF Len(cv.oper) > 0
  THEN IF Top(cv.oper) = <<"(">>
       THEN [cv EXCEPT !.err = ErrMismatchedParentheses, !.ret = 98]
       ELSE DrainOper([cv EXCEPT !.output = Append(@, Top(cv.oper)), !.oper = Pop(@)])
  ELSE [cv EXCEPT !.ret = 104]

NewConverter == [output |-> <<>>, oper |-> <<>>, err |-> NoErr, ret |-> 0]

RECURSIVE ConvertLoop(_, _, _)
ConvertLoop(cv, tokens, k) ==
  IF cv.err # NoErr THEN cv
  ELSE IF k > Len(tokens) THEN DrainOper(cv)
  ELSE ConvertLoop(ConvertToken(cv, tokens[k]), tokens, k + 1)

infixToPostfix(tokens) == ConvertLoop(NewConverter, tokens, 1)

\* The arithmetic of float64 on the rationals that model it.
Add(a, b) == Rat(a[1] * b[2] + b[1] * a[2], a[2] * b[2])

Sub(a, b) == Rat(a[1] * b[2] - b[1] * a[2], a[2] * b[2])

Mul(a, b) == Rat(a[1] * b[1], a[2] * b[2])

Quo(a, b) == Rat(a[1] * b[2], a[2] * b[1])

\* An evaluator state ev is [stack, err, ret].

\* The mutant: the operands are taken in the order they are popped.
ApplyOperatorSwapped(ev, token, a, b) ==
  CASE token = <<"+">> -> [ev EXCEPT !.stack = Append(@, Add(b, a))]
    [] token = <<"-">> -> [ev EXCEPT !.stack = Append(@, Sub(b, a))]
    [] token = <<"*">> -> [ev EXCEPT !.stack = Append(@, Mul(b, a))]
    [] token = <<"/">> -> IF a = Zero
                          THEN [ev EXCEPT !.err = ErrDivisionByZero, !.ret = 131]
                          ELSE [ev EXCEPT !.stack = Append(@, Quo(b, a))]
    [] OTHER -> [ev EXCEPT !.err = ErrInvalidExpression, !.ret = 135]

\* The switch on the operator, with a and b already popped.
ApplyOperator(ev, token, a, b) ==
  CASE token = <<"+">> -> [ev EXCEPT !.stack = Append(@, Add(a, b))]
    [] token = <<"-">> -> [ev EXCEPT !.stack = Append(@, Sub(a, b))]
    [] token = <<"*">> -> [ev EXCEPT !.stack = Append(@, Mul(a, b))]
    [] token = <<"/">> -> IF b = Zero
                          THEN [ev EXCEPT !.err = ErrDivisionByZero, !.ret = 131]
                          ELSE [ev EXCEPT !.stack = Append(@, Quo(a, b))]
    [] OTHER -> [ev EXCEPT !.err = ErrInvalidExpression, !.ret = 135]

\* The body of evaluatePostfix's loop over the postfix tokens.
EvalToken(ev, token) ==
  IF isNumber(token) THEN [ev EXCEPT !.stack = Append(@, ParseFloat(token))]
  ELSE IF isOperator(token)
  THEN IF Len(ev.stack) < 2
       THEN [ev EXCEPT !.err = ErrInvalidExpression, !.ret = 116]
       ELSE LET b == ev.stack[Len(ev.stack)]
                a == ev.stack[Len(ev.stack) - 1]
            IN  ApplyOperator([ev EXCEPT !.stack = SubSeq(@, 1, Len(@) - 2)], token, a, b)
  ELSE [ev EXCEPT !.err = ErrInvalidExpression, !.ret = 138]

\* The test after the loop: exactly one value is left.
EvalFinish(ev) ==
  IF Len(ev.stack) # 1
  THEN [ev EXCEPT !.err = ErrInvalidExpression, !.ret = 143]
  ELSE [ev EXCEPT !.ret = 146]

NewEvaluator == [stack |-> <<>>, err |-> NoErr, ret |-> 0]

RECURSIVE EvalLoop(_, _, _)
EvalLoop(ev, postfix, k) ==
  IF ev.err # NoErr THEN ev
  ELSE IF k > Len(postfix) THEN EvalFinish(ev)
  ELSE EvalLoop(EvalToken(ev, postfix[k]), postfix, k + 1)

evaluatePostfix(postfix) == EvalLoop(NewEvaluator, postfix, 1)

\* What a call returns: [err, result, ret]; the result is 0 beside an error.
Outcome(err, result, ret) ==
  [err |-> err, result |-> IF err = NoErr THEN result ELSE Zero, ret |-> ret]

\* Calc as one function of its text.
Calc(expression) ==
  IF TrimSpace(expression) = <<>> THEN Outcome(ErrInvalidExpression, Zero, 17)
  ELSE IF ~isValidExpression(expression) THEN Outcome(ErrInvalidExpression, Zero, 21)
  ELSE LET cv == infixToPostfix(tokenize(expression))
       IN  IF cv.err # NoErr THEN Outcome(cv.err, Zero, cv.ret)
           ELSE LET ev == evaluatePostfix(cv.output)
                IN  Outcome(ev.err, IF ev.err = NoErr THEN ev.stack[1] ELSE Zero, ev.ret)

\* ------------------------------------------------------------------ main.go

MethodPost == "POST"

StatusOK == 200

StatusBadRequest == 400

StatusMethodNotAllowed == 405

StatusUnprocessableEntity == 422

StatusInternalServerError == 500

\* errors.Is on the sentinel errors is identity.
IsClientFaultOnlyInvalid(e) == e = ErrInvalidExpression

\* The test that sends an error to the 422 branch.
IsClientFault(e) == e = ErrInvalidExpression \/ e = ErrMismatchedParentheses

\* A Response: each field is <<>> (a nil pointer, left out of the JSON) or <<v>>.
NoResponse == [status |-> 0, result |-> <<>>, error |-> <<>>, json |-> FALSE]

\* http.Error: a plain-text body, no Response object.
HttpError(code) == [status |-> code, result |-> <<>>, error |-> <<>>, json |-> FALSE]

\* The response handleCalculate writes for what Calc returned.
ResponseFor(res, e) ==
  IF e # NoErr
  THEN IF IsClientFault(e)
       THEN [status |-> StatusUnprocessableEntity, result |-> <<>>,
             error |-> <<"Expression is not valid">>, json |-> TRUE]
       ELSE [status |-> StatusInternalServerError, result |-> <<>>,
             error |-> <<"Internal server error">>, json |-> TRUE]
  ELSE [status |-> StatusOK, result |-> <<res>>, error |-> <<>>, json |-> TRUE]

\* ------------------------------------------------------------------ inputs

Texts(n) == UNION {[1..k -> Alphabet] : k \in 0..n}

\* The digits of the generated well-formed expressions.
ExprDigits == {"0", "2"}

\* Literals of exactly n characters: digit runs, and decimals d.d.
Literals(n) ==
  (IF n <= MaxLitLen THEN [1..n -> ExprDigits] ELSE {})
    \cup (IF n = 3 THEN {<<a, ".", b>> : a, b \in ExprDigits} ELSE {})

\* The expressions of exactly n characters of the grammar
\*   E ::= literal | ( E ) | E op E.
RECURSIVE ExprsOfLen(_)
ExprsOfLen(n) ==
  IF n < 1 THEN {}
  ELSE Literals(n)
         \cup {<<"(">> \o e \o <<")">> : e \in ExprsOfLen(n - 2)}
         \cup UNION {{a \o <<op>> \o b : a \in ExprsOfLen(k), op \in OperatorChars,
                                         b \in ExprsOfLen(n - 1 - k)} : k \in 1..(n - 2)}

Exprs == UNION {ExprsOfLen(n) : n \in 1..MaxExprLen}

InputTexts == Texts(MaxLen) \cup Exprs

\* The requests: every input text in a well-framed POST, and one request of
\* each kind the handler refuses before it calls Calc.
Requests ==
  {[method |-> MethodPost, validJSON |-> TRUE, expression |-> t] : t \in InputTexts}
    \cup {[method |-> "GET", validJSON |-> TRUE, expression |-> <<"2">>],
          [method |-> MethodPost, validJSON |-> FALSE, expression |-> <<>>]}

\* The texts of the concurrent specification.
ConcTexts ==
  {<<"2", "-", "0", "*", "2">>, <<"(", "2", "+", "2", ")", "/", "0">>,
   <<"2", ")">>, <<" ">>, <<"0", " ", "2">>}

NoRequest == [method |-> "", validJSON |-> FALSE, expression |-> <<>>]

\* ------------------------------------------------------------------- state

Callers == {1, 2}

VARIABLES
  pc,        \* where each caller's request stands
  request,   \* the request each caller sent
  tokens,    \* Calc's tokens
  i,         \* infixToPostfix: the index of the next token
  output,    \* infixToPostfix's output, by frame
  oper,      \* infixToPostfix's operator stack, by frame
  postfix,   \* Calc's postfix
  j,         \* evaluatePostfix: the index of the next postfix token
  stack,     \* evaluatePostfix's value stack, by frame
  result,    \* what Calc returned: the number
  err,       \* what Calc returned: the error
  retAt,     \* the line of calc.go whose return statement ended the call
  response,  \* what the handler wrote
  calls      \* how many requests each caller has sent

vars == <<pc, request, tokens, i, output, oper, postfix, j, stack, result, err,
          retAt, response, calls>>

\* The mutant: the converter's and evaluator's collections are package-level
\* variables, one for all calls.
FrameShared(c) == 1

\* The locals of a call live in the call's own frame.
Frame(c) == c

Idle ==
  /\ tokens = [c \in Callers |-> <<>>]
  /\ i = [c \in Callers |-> 0]
  /\ output = [c \in Callers |-> <<>>]
  /\ oper = [c \in Callers |-> <<>>]
  /\ postfix = [c \in Callers |-> <<>>]
  /\ j = [c \in Callers |-> 0]
  /\ stack = [c \in Callers |-> <<>>]
  /\ result = [c \in Callers |-> Zero]
  /\ err = [c \in Callers |-> NoErr]
  /\ retAt = [c \in Callers |-> 0]
  /\ response = [c \in Callers |-> NoResponse]

\* One request, sent by caller 1.
Init ==
  /\ Idle
  /\ \E r \in Requests :
       request = [c \in Callers |-> IF c = 1 THEN r ELSE NoRequest]
  /\ pc = [c \in Callers |-> IF c = 1 THEN "handle" ELSE "idle"]
  /\ calls = [c \in Callers |-> IF c = 1 THEN 1 ELSE 0]

\* No request yet: the callers send them as they go.
InitConc ==
  /\ Idle
  /\ request = [c \in Callers |-> NoRequest]
  /\ pc = [c \in Callers |-> "idle"]
  /\ calls = [c \in Callers |-> 0]

\* ----------------------------------------------------------------- actions

\* handleCalculate up to the call of Calc: the method, then the JSON body.
Receive(c) ==
  /\ pc[c] = "handle"
  /\ IF request[c].method # MethodPost
     THEN /\ response' = [response EXCEPT ![c] = HttpError(StatusMethodNotAllowed)]
          /\ pc' = [pc EXCEPT ![c] = "done"]
     ELSE IF ~request[c].validJSON
     THEN /\ response' = [response EXCEPT ![c] = HttpError(StatusBadRequest)]
          /\ pc' = [pc EXCEPT ![c] = "done"]
     ELSE /\ response' = response
          /\ pc' = [pc EXCEPT ![c] = "calc"]
  /\ UNCHANGED <<request, tokens, i, output, oper, postfix, j, stack, result, err,
                 retAt, calls>>

\* Calc's two tests of the text.
Validate(c) ==
  /\ pc[c] = "calc"
  /\ IF TrimSpace(request[c].expression) = <<>>
     THEN /\ err' = [err EXCEPT ![c] = ErrInvalidExpression]
          /\ retAt' = [retAt EXCEPT ![c] = 17]
          /\ pc' = [pc EXCEPT ![c] = "respond"]
     ELSE IF ~isValidExpression(request[c].expression)
     THEN /\ err' = [err EXCEPT ![c] = ErrInvalidExpression]
          /\ retAt' = [retAt EXCEPT ![c] = 21]
          /\ pc' = [pc EXCEPT ![c] = "respond"]
     ELSE /\ err' = err
          /\ retAt' = retAt
          /\ pc' = [pc EXCEPT ![c] = "tokenize"]
  /\ UNCHANGED <<request, tokens, i, output, oper, postfix, j, stack, result,
                 response, calls>>

\* tokenize, and infixToPostfix's entry: its two locals start empty.
Tokenize(c) ==
  /\ pc[c] = "tokenize"
  /\ tokens' = [tokens EXCEPT ![c] = tokenize(request[c].expression)]
  /\ i' = [i EXCEPT ![c] = 1]
  /\ output' = [output EXCEPT ![Frame(c)] = <<>>]
  /\ oper' = [oper EXCEPT ![Frame(c)] = <<>>]
  /\ pc' = [pc EXCEPT ![c] = "convert"]
  /\ UNCHANGED <<request, postfix, j, stack, result, err, retAt, response, calls>>

\* The converter state of caller c's call.
Converter(c) ==
  [output |-> output[Frame(c)], oper |-> oper[Frame(c)], err |-> NoErr, ret |-> 0]

\* One token through infixToPostfix's loop; an error returns through Calc.
ConvertStep(c) ==
  /\ pc[c] = "convert"
  /\ i[c] <= Len(tokens[c])
  /\ LET cv == ConvertToken(Converter(c), tokens[c][i[c]])
     IN  /\ output' = [output EXCEPT ![Frame(c)] = cv.output]
         /\ oper' = [oper EXCEPT ![Frame(c)] = cv.oper]
         /\ IF cv.err # NoErr
            THEN /\ err' = [err EXCEPT ![c] = cv.err]
                 /\ retAt' = [retAt EXCEPT ![c] = cv.ret]
                 /\ pc' = [pc EXCEPT ![c] = "respond"]
                 /\ i' = i
            ELSE /\ i' = [i EXCEPT ![c] = @ + 1]
                 /\ UNCHANGED <<err, retAt, pc>>
  /\ UNCHANGED <<request, tokens, postfix, j, stack, result, response, calls>>

\* The loop after the tokens, infixToPostfix's return and evaluatePostfix's entry.
ConvertDrain(c) ==
  /\ pc[c] = "convert"
  /\ i[c] > Len(tokens[c])
  /\ LET cv == DrainOper(Converter(c))
     IN  /\ output' = [output EXCEPT ![Frame(c)] = cv.output]
         /\ oper' = [oper EXCEPT ![Frame(c)] = cv.oper]
         /\ IF cv.err # NoErr
            THEN /\ err' = [err EXCEPT ![c] = cv.err]
                 /\ retAt' = [retAt EXCEPT ![c] = cv.ret]
                 /\ pc' = [pc EXCEPT ![c] = "respond"]
                 /\ UNCHANGED <<postfix, j, stack>>
            ELSE /\ postfix' = [postfix EXCEPT ![c] = cv.output]
                 /\ j' = [j EXCEPT ![c] = 1]
                 /\ stack' = [stack EXCEPT ![Frame(c)] = <<>>]
                 /\ pc' = [pc EXCEPT ![c] = "evaluate"]
                 /\ UNCHANGED <<err, retAt>>
  /\ UNCHANGED <<request, tokens, i, result, response, calls>>

\* One postfix token through evaluatePostfix's loop.
EvalStep(c) ==
  /\ pc[c] = "evaluate"
  /\ j[c] <= Len(postfix[c])
  /\ LET ev == EvalToken([stack |-> stack[Frame(c)], err |-> NoErr, ret |-> 0],
                         postfix[c][j[c]])
     IN  /\ stack' = [stack EXCEPT ![Frame(c)] = ev.stack]
         /\ IF ev.err # NoErr
            THEN /\ err' = [err EXCEPT ![c] = ev.err]
                 /\ retAt' = [retAt EXCEPT ![c] = ev.ret]
                 /\ pc' = [pc EXCEPT ![c] = "respond"]
                 /\ j' = j
            ELSE /\ j' = [j EXCEPT ![c] = @ + 1]
                 /\ UNCHANGED <<err, retAt, pc>>
  /\ UNCHANGED <<request, tokens, i, output, oper, postfix, result, response, calls>>

\* The test after the loop, and the return of the one value.
EvalEnd(c) ==
  /\ pc[c] = "evaluate"
  /\ j[c] > Len(postfix[c])
  /\ LET ev == EvalFinish([stack |-> stack[Frame(c)], err |-> NoErr, ret |-> 0])
     IN  /\ err' = [err EXCEPT ![c] = ev.err]
         /\ retAt' = [retAt EXCEPT ![c] = ev.ret]
         /\ result' = [result EXCEPT ![c] = IF ev.err = NoErr THEN ev.stack[1] ELSE Zero]
  /\ pc' = [pc EXCEPT ![c] = "respond"]
  /\ UNCHANGED <<request, tokens, i, output, oper, postfix, j, stack, response, calls>>

\* handleCalculate after Calc returned.
Respond(c) ==
  /\ pc[c] = "respond"
  /\ response' = [response EXCEPT ![c] = ResponseFor(result[c], err[c])]
  /\ pc' = [pc EXCEPT ![c] = "done"]
  /\ UNCHANGED <<request, tokens, i, output, oper, postfix, j, stack, result, err,
                 retAt, calls>>

\* A caller sends its next request: a new call, with new locals.
NewRequest(c) ==
  /\ pc[c] \in {"idle", "done"}
  /\ calls[c] < MaxCalls
  /\ \E t \in ConcTexts :
       request' = [request EXCEPT ![c] =
                     [method |-> MethodPost, validJSON |-> TRUE, expression |-> t]]
  /\ calls' = [calls EXCEPT ![c] = @ + 1]
  /\ pc' = [pc EXCEPT ![c] = "handle"]
  /\ tokens' = [tokens EXCEPT ![c] = <<>>]
  /\ i' = [i EXCEPT ![c] = 0]
  /\ postfix' = [postfix EXCEPT ![c] = <<>>]
  /\ j' = [j EXCEPT ![c] = 0]
  /\ result' = [result EXCEPT ![c] = Zero]
  /\ err' = [err EXCEPT ![c] = NoErr]
  /\ retAt' = [retAt EXCEPT ![c] = 0]
  /\ response' = [response EXCEPT ![c] = NoResponse]
  /\ UNCHANGED <<output, oper, stack>>

Step(c) ==
  \/ Receive(c)
  \/ Validate(c)
  \/ Tokenize(c)
  \/ ConvertStep(c)
  \/ ConvertDrain(c)
  \/ EvalStep(c)
  \/ EvalEnd(c)
  \/ Respond(c)

Next == \E c \in Callers : Step(c)

NextConc == \E c \in Callers : Step(c) \/ NewRequest(c)

\* One request, served to its response.
Spec == Init /\ [][Next]_vars

\* Two callers, each sending requests one after the other, their calls interleaved.
SpecConc == InitConc /\ [][NextConc]_vars

\* --------------------------------------------- the arithmetic the claims mean
\* The usual reading of an expression, written without the converter or the
\* evaluator: lexemes, balance, and the value by splitting at the last
\* operator of the lowest precedence outside all parentheses.

\* A decimal literal: digits, optionally a point and more digits.
IsDecimalLiteral(tok) ==
  /\ isNumber(tok)
  /\ tok[1] # "."
  /\ tok[Len(tok)] # "."

\* The lexemes of a text: operators and parentheses stand alone, and a
\* literal ends at the next operator, parenthesis or space.
RECURSIVE Lexemes(_)
Lexemes(text) ==
  IF text = <<>> THEN <<>>
  ELSE LET rest == Lexemes(Tail(text))
           ch   == Head(text)
       IN  IF ch = " " THEN rest
           ELSE IF ch \in OperatorChars \cup {"(", ")"} THEN <<(<<ch>>)>> \o rest
           ELSE IF Len(text) > 1 /\ text[2] \notin OperatorChars \cup {"(", ")", " "}
                THEN <<(<<ch>> \o Head(rest))>> \o Tail(rest)
                ELSE <<(<<ch>>)>> \o rest

StripSpaces(text) == SelectSeq(text, LAMBDA ch : ch # " ")

\* Open parentheses minus closed ones among the first k items of a sequence
\* of characters or of lexemes.
ParenDepth(seq, open, close, k) ==
  Cardinality({m \in 1..k : seq[m] = open}) - Cardinality({m \in 1..k : seq[m] = close})

BalancedSeq(seq, open, close) ==
  /\ \A k \in 1..Len(seq) : ParenDepth(seq, open, close, k) >= 0
  /\ ParenDepth(seq, open, close, Len(seq)) = 0

\* The parentheses of a text are balanced.
BalancedText(text) == BalancedSeq(text, "(", ")")

SetMax(S) == CHOOSE x \in S : \A y \in S : y <= x

Malformed == [kind |-> "malformed", v |-> Zero]

DivZero == [kind |-> "divzero", v |-> Zero]

Combine(op, l, r) ==
  IF l.kind = "malformed" \/ r.kind = "malformed" THEN Malformed
  ELSE IF l.kind = "divzero" \/ r.kind = "divzero" THEN DivZero
  ELSE CASE op = <<"+">> -> [kind |-> "value", v |-> Add(l.v, r.v)]
         [] op = <<"-">> -> [kind |-> "value", v |-> Sub(l.v, r.v)]
         [] op = <<"*">> -> [kind |-> "value", v |-> Mul(l.v, r.v)]
         [] op = <<"/">> -> IF r.v = Zero THEN DivZero
                            ELSE [kind |-> "value", v |-> Quo(l.v, r.v)]

\* The meaning of a sequence of lexemes: a value, a division by zero, or
\* malformed (not an alternation of operands and binary operators with
\* balanced parentheses).
RECURSIVE Meaning(_)
Meaning(lx) ==
  IF lx = <<>> \/ ~BalancedSeq(lx, <<"(">>, <<")">>) THEN Malformed
  ELSE LET outer(ops) == {k \in 1..Len(lx) :
                            lx[k] \in ops /\ ParenDepth(lx, <<"(">>, <<")">>, k) = 0}
           adds == outer({<<"+">>, <<"-">>})
           muls == outer({<<"*">>, <<"/">>})
           split(k) == Combine(lx[k], Meaning(SubSeq(lx, 1, k - 1)),
                               Meaning(SubSeq(lx, k + 1, Len(lx))))
       IN  IF adds # {} THEN split(SetMax(adds))
           ELSE IF muls # {} THEN split(SetMax(muls))
           ELSE IF Len(lx) = 1
                THEN IF IsDecimalLiteral(lx[1])
                     THEN [kind |-> "value", v |-> ParseFloat(lx[1])]
                     ELSE Malformed
           ELSE IF lx[1] = <<"(">> /\ lx[Len(lx)] = <<")">>
                THEN Meaning(SubSeq(lx, 2, Len(lx) - 1))
           ELSE Malformed

\* The meaning of a text.
TextMeaning(text) == Meaning(Lexemes(text))

\* The handler called Calc for caller c's request.
CalcCalled(c) == request[c].method = MethodPost /\ request[c].validJSON

\* Calc has returned to the handler.
Returned(c) == CalcCalled(c) /\ pc[c] \in {"respond", "done"}

\* The text passed Calc's validation.
PassedValidation(c) ==
  /\ CalcCalled(c)
  /\ pc[c] \in {"tokenize", "convert", "evaluate", "respond", "done"}
  /\ retAt[c] \notin {17, 21}

Text(c) == request[c].expression

\* ------------------------------------------------------------------ claims

\* C1: for every valid expression (non-negative decimal literals, + - * /,
\* parentheses and spaces, balanced, a complete alternation of operands and
\* operators, its value defined) Calc returns no error and returns the value
\* of the usual precedence-respecting, left-associative evaluation.
C1_ValidExpressionEvaluates ==
  \A c \in Callers :
    (Returned(c) /\ TextMeaning(Text(c)).kind = "value")
      => (err[c] = NoErr /\ result[c] = TextMeaning(Text(c)).v)

\* C2: for every well-formed expression over digit-only literals in which no
\* divisor is zero, Calc returns the value in which * and / bind tighter than
\* + and -, equal precedence groups left to right, a parenthesised group is
\* one operand, and the left operand of - and / is the earlier one.
C2_PrecedenceAndLeftAssociativity ==
  \A c \in Callers :
    (/\ Returned(c)
     /\ \A k \in 1..Len(Text(c)) : Text(c)[k] # "."
     /\ TextMeaning(Text(c)).kind = "value")
      => (err[c] = NoErr /\ result[c] = TextMeaning(Text(c)).v)

\* 2-2-2*2 is (2-2)-(2*2) = -4.
C2_Witness ==
  /\ pc[1] = "done"
  /\ Text(1) = <<"2", "-", "2", "-", "2", "*", "2">>
  /\ err[1] = NoErr
  /\ result[1] = Rat(-4, 1)

\* The characters the validator is said to admit: the digits, the decimal
\* point, the four operators, the two parentheses and the space.
Permitted == DecimalDigits \cup {".", "+", "-", "*", "/", "(", ")", " "}

\* C3: validation fails exactly when the text is empty or blank or holds a
\* character outside the permitted alphabet (which has the decimal point);
\* every other text goes on to tokenization.
C3_ValidationRejectsExactlyBadAlphabet ==
  \A c \in Callers :
    (CalcCalled(c) /\ pc[c] \in {"tokenize", "convert", "evaluate", "respond", "done"})
      => ((retAt[c] \in {17, 21})
            <=> (\/ \A k \in 1..Len(Text(c)) : Text(c)[k] = " "
                 \/ \E k \in 1..Len(Text(c)) : Text(c)[k] \notin Permitted))

C5_DivisionByZeroExactlyOnZeroDivisor ==
  \A c \in Callers :
    (Returned(c) /\ TextMeaning(Text(c)).kind # "malformed")
      => ((err[c] = ErrDivisionByZero) <=> (TextMeaning(Text(c)).kind = "divzero"))

\* The equivalence of C5 on the expressions whose literals are digit runs,
\* which are the ones the validator lets through.
DivisionByZeroOnDigitLiterals ==
  \A c \in Callers :
    (/\ Returned(c)
     /\ \A k \in 1..Len(Text(c)) : Text(c)[k] # "."
     /\ TextMeaning(Text(c)).kind # "malformed")
      => ((err[c] = ErrDivisionByZero) <=> (TextMeaning(Text(c)).kind = "divzero"))

\* C6: Calc gives a text the outcome (the same number or the same error) it
\* gives the text without its spaces, so any two texts that differ only in
\* spaces have the same outcome.
C6_WhitespaceInsensitive ==
  \A c \in Callers :
    Returned(c)
      => (/\ err[c] = Calc(StripSpaces(Text(c))).err
          /\ result[c] = Calc(StripSpaces(Text(c))).result)

\* "2 0" is read as 20, as "20" is.
C6_Witness ==
  /\ pc[1] = "done"
  /\ Text(1) = <<"2", " ", "0">>
  /\ err[1] = NoErr
  /\ result[1] = Rat(20, 1)

\* C7: a text that passes validation but is not a complete alternation of
\* operands and binary operators with balanced parentheses makes Calc return
\* an error, never a number.  (The structure is judged on the text without
\* its spaces, as the tokenizer reads it.)
C7_MalformedStructureIsAnError ==
  \A c \in Callers :
    (/\ PassedValidation(c)
     /\ pc[c] = "done"
     /\ TextMeaning(StripSpaces(Text(c))).kind = "malformed")
      => err[c] # NoErr

C9_CallsAreIndependent ==
  \A c \in Callers :
    Returned(c)
      => (/\ err[c] = Calc(Text(c)).err
          /\ result[c] = Calc(Text(c)).result
          /\ retAt[c] = Calc(Text(c)).ret)

\* Caller 1 has finished its second call while caller 2 is in the middle of
\* evaluating another text.
C9_Witness ==
  /\ calls[1] = 2
  /\ pc[1] = "done"
  /\ err[1] = NoErr
  /\ pc[2] = "evaluate"
  /\ j[2] = 2
  /\ Text(1) # Text(2)

\* The number tokens of a sequence of tokens, in order.
NumberTokens(seq) == SelectSeq(seq, isNumber)

\* How often token t occurs in a sequence of tokens.
Occurrences(seq, t) == Cardinality({k \in 1..Len(seq) : seq[k] = t})

OperatorTokens == {<<"+">>, <<"-">>, <<"*">>, <<"/">>}

\* infixToPostfix returned a postfix for caller c's tokens.
Converted(c) ==
  /\ PassedValidation(c)
  /\ \/ pc[c] = "evaluate"
     \/ pc[c] \in {"respond", "done"} /\ retAt[c] \in {116, 131, 135, 138, 143, 146}

\* C10: during infixToPostfix the operator stack holds only operators and
\* "(", the output only numbers and operators; after a successful conversion
\* the output has every number and every operator of the input exactly once,
\* the numbers in their input order, and the operator stack is empty.
C10_ConverterStackAndOutput ==
  \A c \in Callers :
    /\ \A k \in 1..Len(oper[c]) : isOperator(oper[c][k]) \/ oper[c][k] = <<"(">>
    /\ \A k \in 1..Len(output[c]) : isNumber(output[c][k]) \/ isOperator(output[c][k])
    /\ Converted(c)
         => /\ oper[c] = <<>>
            /\ NumberTokens(output[c]) = NumberTokens(tokens[c])
            /\ \A t \in OperatorTokens :
                 Occurrences(output[c], t) = Occurrences(tokens[c], t)
            /\ postfix[c] = output[c]

\* (2+2)*2 converted to 2 2 + 2 *.
C10_Witness ==
  /\ pc[1] = "evaluate"
  /\ j[1] = 1
  /\ Text(1) = <<"(", "2", "+", "2", ")", "*", "2">>
  /\ postfix[1] = <<(<<"2">>), (<<"2">>), (<<"+">>), (<<"2">>), (<<"*">>)>>
  /\ oper[1] = <<>>

====
